---- MODULE Spec2Model ----
(***************************************************************************)
(* A model of the merklederkle package: the flattened Merkle tree, its     *)
(* single proofs and its multiproofs.  The exported variant of the source  *)
(* (MakeMerkleTree, GetProof, ProcessProof, GetMultiProof,                 *)
(* ProcessMultiProof) is the one modelled; indices are 0-based as in the   *)
(* source and a slice s is the sequence whose element s[i] is At(s, i).    *)
(*                                                                         *)
(* A Bytes value is the record [len, val]: a string of len bytes that      *)
(* holds the big-endian number val.  Every byte string is exactly one such *)
(* record, and bytes.Compare is computed on it as Go computes it.          *)
(* keccak256 is modelled as a collision-free function of the strings that  *)
(* were concatenated, onto 32-byte strings the leaves do not use.          *)
(***************************************************************************)
EXTENDS Integers, Sequences, FiniteSets, TLC

\* ---- bounds of the model
MaxLeaves == 4
MaxLeafVal == 2
MaxIndices == 2
MaxParts == 2
MaxFlags == 3
MaxNode == 63

\* ---- program constants
NodeLen == 32

Nil == "nil"
OutOfRange == "index out of range"

\* The zero value of Bytes (a nil slice).
NilBytes == [len |-> 0, val |-> 0]

At(s, i) == s[i + 1]

InRange(s, i) == i >= 0 /\ i < Len(s)

RECURSIVE Pow256(_)
Pow256(n) == IF n <= 0 THEN 1 ELSE 256 * Pow256(n - 1)

\* The number held by the first m bytes of a.
Prefix(a, m) == a.val \div Pow256(a.len - m)

\* bytes.Compare: lexicographic, a proper prefix being the smaller.
bytesCompare(a, b) ==
    LET m == IF a.len < b.len THEN a.len ELSE b.len
        pa == Prefix(a, m)
        pb == Prefix(b, m)
    IN  IF pa < pb THEN -1
        ELSE IF pa > pb THEN 1
        ELSE IF a.len < b.len THEN -1
        ELSE IF a.len > b.len THEN 1
        ELSE 0

\* concatBytes(a, b), kept as the strings it joined, in order.
concatBytes(a, b) == <<a, b>>

\* An injective pairing of two naturals.
Cantor(x, y) == ((x + y) * (x + y + 1)) \div 2 + y

\* A Keccak-256 digest is 32 bytes long.
keccak256(data) ==
    [len |-> 32,
     val |-> MaxLeafVal + 1 + Cantor(data[1].val, data[2].val)]

equalsBytes(a, b) == a.len = b.len /\ a.val = b.val

throwError(msg) == msg

hashPair_Unsorted(a, b) == keccak256(concatBytes(a, b))

hashPair(a, b) ==
    IF bytesCompare(a, b) > 0
    THEN keccak256(concatBytes(b, a))
    ELSE keccak256(concatBytes(a, b))

leftChildIndex(i) == 2 * i + 1

rightChildIndex(i) == 2 * i + 2

parentIndex_Half(i) ==
    IF i > 0
    THEN [val |-> i \div 2, err |-> Nil]
    ELSE [val |-> 0, err |-> throwError("Root has no parent")]

parentIndex(i) ==
    IF i > 0
    THEN [val |-> (i - 1) \div 2, err |-> Nil]
    ELSE [val |-> 0, err |-> throwError("Root has no parent")]

siblingIndex_Left(i) == IF i > 0 THEN i - 1 ELSE 0

\* math.Pow(-1, i%2) is 1 for an even i and -1 for an odd one; the error
\* built for i <= 0 is dropped and 0 returned.
siblingIndex(i) ==
    IF i > 0
    THEN i - (IF i % 2 = 0 THEN 1 ELSE -1)
    ELSE 0

isTreeNode(tree, i) == i >= 0 /\ i < Len(tree)

isInternalNode(tree, i) == isTreeNode(tree, leftChildIndex(i))

isLeafNode(tree, i) == isTreeNode(tree, i) /\ ~isInternalNode(tree, i)

isValidMerkleNode(node) == node.len = NodeLen

checkLeafNode(tree, i) ==
    IF ~isLeafNode(tree, i) THEN throwError("Index is not a leaf") ELSE Nil

checkValidMerkleNode(node) ==
    IF ~isValidMerkleNode(node)
    THEN throwError("Merkle tree nodes must be Bytes of length 32")
    ELSE Nil

\* ---- MakeMerkleTree

RECURSIVE insertAsc(_, _)
insertAsc(x, s) ==
    IF Len(s) = 0 THEN <<x>>
    ELSE IF bytesCompare(x, Head(s)) < 0 THEN <<x>> \o s
    ELSE <<Head(s)>> \o insertAsc(x, Tail(s))

\* sort.Slice(leaves, bytes.Compare(leaves[i], leaves[j]) < 0): the slice
\* in ascending order.
RECURSIVE sortLeaves(_)
sortLeaves(s) ==
    IF Len(s) = 0 THEN <<>> ELSE insertAsc(Head(s), sortLeaves(Tail(s)))

\* tree := make([]Bytes, 2*len(leaves)-1); tree[len(tree)-1-i] = leaf.
placeLeaves(leaves) ==
    LET size == 2 * Len(leaves) - 1
    IN  [k \in 1..size |->
            IF k - 1 >= size - Len(leaves)
            THEN leaves[size - k + 1]
            ELSE NilBytes]

fillNode_LeftOnly(tree, i) ==
    [tree EXCEPT ![i + 1] =
        hashPair(At(tree, leftChildIndex(i)), At(tree, leftChildIndex(i)))]

\* tree[i] = hashPair(tree[leftChildIndex(i)], tree[rightChildIndex(i)])
fillNode(tree, i) ==
    [tree EXCEPT ![i + 1] =
        hashPair(At(tree, leftChildIndex(i)), At(tree, rightChildIndex(i)))]

\* for i := len(tree) - 1 - len(leaves); i >= 0; i--
RECURSIVE fillInternal(_, _)
fillInternal(tree, i) ==
    IF i >= 0 THEN fillInternal(fillNode(tree, i), i - 1) ELSE tree

\* The result of the call and the caller's slice as the call leaves it.  The
\* error of checkValidMerkleNode is dropped for every leaf; the sort is done
\* in the caller's slice.
MakeMerkleTree(leaves) ==
    IF Len(leaves) = 0
    THEN [kind |-> "panic", err |-> "Expected non-zero number of leaves",
          tree |-> <<>>, leaves |-> leaves]
    ELSE LET sorted == sortLeaves(leaves)
             tree == placeLeaves(sorted)
         IN  [kind |-> "return", err |-> Nil,
              tree |-> fillInternal(tree, Len(tree) - 1 - Len(sorted)),
              leaves |-> sorted]

\* ---- GetProof, ProcessProof

RECURSIVE proofWalk(_, _, _)
proofWalk(tree, index, proof) ==
    IF index > 0
    THEN proofWalk(tree, parentIndex(index).val,
                   Append(proof, At(tree, siblingIndex(index))))
    ELSE proof

GetProof(tree, index) ==
    IF checkLeafNode(tree, index) # Nil
    THEN [proof |-> <<>>, err |-> checkLeafNode(tree, index)]
    ELSE [proof |-> proofWalk(tree, index, <<>>), err |-> Nil]

RECURSIVE foldProof(_, _)
foldProof(result, proof) ==
    IF Len(proof) = 0 THEN result
    ELSE foldProof(hashPair(result, Head(proof)), Tail(proof))

ProcessProof(leaf, proof) ==
    IF checkValidMerkleNode(leaf) # Nil
    THEN [root |-> NilBytes, err |-> checkValidMerkleNode(leaf)]
    ELSE IF \E k \in 1..Len(proof) : checkValidMerkleNode(proof[k]) # Nil
    THEN [root |-> NilBytes,
          err |-> throwError("Merkle tree nodes must be Bytes of length 32")]
    ELSE [root |-> foldProof(leaf, proof), err |-> Nil]

\* ---- helpers of the multiproof

RECURSIVE insertDesc(_, _)
insertDesc(x, s) ==
    IF Len(s) = 0 THEN <<x>>
    ELSE IF x > Head(s) THEN <<x>> \o s
    ELSE <<Head(s)>> \o insertDesc(x, Tail(s))

RECURSIVE sortDesc(_)
sortDesc(s) ==
    IF Len(s) = 0 THEN <<>> ELSE insertDesc(Head(s), sortDesc(Tail(s)))

sortIndicesDesc_NoSort(indices) == indices

\* A sorted copy; the argument is left as it is.
sortIndicesDesc(indices) == sortDesc(indices)

hasDuplicateIndex(indices) ==
    \E i, j \in 1..Len(indices) : i < j /\ indices[i] = indices[j]

getIndicesValues(tree, indices) ==
    [k \in 1..Len(indices) |-> At(tree, indices[k])]

countFalse(flags) == Cardinality({k \in 1..Len(flags) : ~flags[k]})

\* if len(stack) > 1 { stack = stack[1:] } else { stack = make(.., 0) }
consume(stack) == IF Len(stack) > 1 THEN Tail(stack) ELSE <<>>

\* ---- GetMultiProof

\* One turn of the loop over the work queue: j is taken from the front, and
\* either its sibling is next in the queue (flag true) or tree[s] joins the
\* proof (flag false); the parent goes to the back.  oob is the runtime
\* panic of reading tree[s] outside the tree.
multiProofStep(tree, st) ==
    LET j == st.stack[1]
        rest == consume(st.stack)
        s == siblingIndex(j)
        p == parentIndex(j).val
    IN  IF Len(rest) > 0 /\ s = rest[1]
        THEN [st EXCEPT !.stack = Append(consume(rest), p),
                        !.proofFlags = Append(@, TRUE)]
        ELSE IF ~InRange(tree, s)
        THEN [st EXCEPT !.oob = TRUE]
        ELSE [st EXCEPT !.stack = Append(rest, p),
                        !.proof = Append(@, At(tree, s)),
                        !.proofFlags = Append(@, FALSE)]

\* for len(stack) > 0 && stack[0] > 0.  trace is a history of the loop: the
\* work queue at every test of the loop condition, the last one included.
RECURSIVE multiProofLoop(_, _)
multiProofLoop(tree, st) ==
    IF st.oob THEN st
    ELSE LET seen == [st EXCEPT !.trace = Append(@, st.stack)]
         IN  IF Len(st.stack) > 0 /\ st.stack[1] > 0
             THEN multiProofLoop(tree, multiProofStep(tree, seen))
             ELSE seen

emptyRequestProof_None(tree, indices, proof) == proof

\* if len(indices) == 0 { proof = append(proof, tree[0]) }
emptyRequestProof(tree, indices, proof) ==
    IF Len(indices) = 0 THEN Append(proof, At(tree, 0)) ELSE proof

NoMultiProof == [Leaves |-> <<>>, Proof |-> <<>>, ProofFlags |-> <<>>]

NoQueues == [stack |-> <<>>, proof |-> <<>>, trace |-> <<>>]

\* The call's outcome, the work queue and proof as the loop left them, and
\* the caller's index slice as the call leaves it (the sort works on a copy).
\* The error of checkLeafNode is dropped for every index.
GetMultiProof(tree, indices) ==
    LET sorted == sortIndicesDesc(indices)
        st == multiProofLoop(tree,
                  [stack |-> sorted, proof |-> <<>>, proofFlags |-> <<>>,
                   oob |-> FALSE, trace |-> <<>>])
        queues == [stack |-> st.stack, proof |-> st.proof, trace |-> st.trace]
    IN  IF hasDuplicateIndex(sorted)
        THEN [kind |-> "panic", err |-> "Cannot prove duplicated index",
              multiproof |-> NoMultiProof, queues |-> NoQueues,
              indices |-> indices]
        ELSE IF \/ st.oob
                \/ Len(sorted) = 0 /\ ~InRange(tree, 0)
                \/ \E k \in 1..Len(sorted) : ~InRange(tree, sorted[k])
        THEN [kind |-> "panic", err |-> OutOfRange,
              multiproof |-> NoMultiProof, queues |-> queues,
              indices |-> indices]
        ELSE [kind |-> "return", err |-> Nil,
              multiproof |->
                  [Leaves |-> getIndicesValues(tree, sorted),
                   Proof |-> emptyRequestProof(tree, sorted, st.proof),
                   ProofFlags |-> st.proofFlags],
              queues |-> queues,
              indices |-> indices]

\* ---- ProcessMultiProof

\* One flag of the replay: a is taken from the front of the stack, b from
\* the stack (flag true) or from the proof (flag false), and hashPair(a, b)
\* goes to the back of the stack.  oob is the runtime panic of reading
\* stack[0] or proof[0] of an empty slice.
replayStep(st, flag) ==
    IF Len(st.stack) = 0 THEN [st EXCEPT !.oob = TRUE]
    ELSE LET a == st.stack[1]
             rest == consume(st.stack)
         IN  IF flag
             THEN IF Len(rest) = 0 THEN [st EXCEPT !.oob = TRUE]
                  ELSE [st EXCEPT !.stack =
                            Append(consume(rest), hashPair(a, rest[1]))]
             ELSE IF Len(st.proof) = 0 THEN [st EXCEPT !.oob = TRUE]
                  ELSE [st EXCEPT !.stack =
                            Append(rest, hashPair(a, st.proof[1])),
                        !.proof = consume(st.proof)]

\* for _, flag := range multiproof.ProofFlags
RECURSIVE replay(_, _)
replay(st, flags) ==
    IF st.oob \/ Len(flags) = 0 THEN st
    ELSE replay(replayStep(st, Head(flags)), Tail(flags))

\* The call's outcome, the two queues as the replay left them, and the
\* caller's multiproof as the call leaves it (the replay works on copies).
\* The error of checkValidMerkleNode is dropped for every leaf and proof
\* element.
ProcessMultiProof(multiproof) ==
    LET st == replay([stack |-> multiproof.Leaves,
                      proof |-> multiproof.Proof, oob |-> FALSE],
                     multiproof.ProofFlags)
        queues == [stack |-> st.stack, proof |-> st.proof, trace |-> <<>>]
    IN  IF Len(multiproof.Proof) < countFalse(multiproof.ProofFlags)
        THEN [kind |-> "panic", err |-> "Invalid multiproof format",
              root |-> NilBytes, queues |-> NoQueues,
              multiproof |-> multiproof]
        ELSE IF Len(multiproof.Leaves) + Len(multiproof.Proof)
                    # Len(multiproof.ProofFlags) + 1
        THEN [kind |-> "panic",
              err |-> "Provided leaves and multiproof are not compatible",
              root |-> NilBytes, queues |-> NoQueues,
              multiproof |-> multiproof]
        ELSE IF st.oob
        THEN [kind |-> "panic", err |-> OutOfRange,
              root |-> NilBytes, queues |-> queues,
              multiproof |-> multiproof]
        ELSE [kind |-> "return", err |-> Nil,
              root |-> IF Len(st.stack) > 0 THEN st.stack[Len(st.stack)]
                       ELSE IF Len(st.proof) > 0 THEN st.proof[1]
                       ELSE NilBytes,
              queues |-> queues,
              multiproof |-> multiproof]

\* ---- isValidMerkleTree

isValidMerkleTree(tree) ==
    /\ \A i \in 0..(Len(tree) - 1) :
          /\ isValidMerkleNode(At(tree, i))
          /\ IF rightChildIndex(i) >= Len(tree)
             THEN ~(leftChildIndex(i) < Len(tree))
             ELSE equalsBytes(At(tree, i),
                      hashPair(At(tree, leftChildIndex(i)),
                               At(tree, rightChildIndex(i))))
    /\ Len(tree) > 0

\* ---- the state: what a caller of the package holds

VARIABLES
    leaves,      \* the leaf slice handed to MakeMerkleTree
    tree,        \* the tree MakeMerkleTree returned
    indices,     \* the index slice handed to GetMultiProof
    proof,       \* the proof GetProof returned
    multiproof,  \* the MultiProof held: returned by GetMultiProof, or received
    root,        \* the value ProcessProof or ProcessMultiProof returned
    queues,      \* the queues of the last multiproof loop, as it left them
    node,        \* the index parentIndex or siblingIndex returned
    op,          \* the last call
    args,        \* the arguments of the last call, as they were passed
    ret          \* how the last call ended: [kind, err]

vars ==
    <<leaves, tree, indices, proof, multiproof, root, queues, node, op, args, ret>>

NoArgs ==
    [leaves |-> <<>>, index |-> 0, indices |-> <<>>, leaf |-> NilBytes,
     proof |-> <<>>, multiproof |-> NoMultiProof]

NoRet == [kind |-> "none", err |-> Nil]

RECURSIVE SeqsUpTo(_, _)
SeqsUpTo(S, n) ==
    IF n = 0 THEN {<<>>}
    ELSE LET shorter == SeqsUpTo(S, n - 1)
         IN  shorter \cup {Append(q, x) : q \in {t \in shorter : Len(t) = n - 1}, x \in S}

\* 32-byte leaves, and one value of 31 bytes.
ValidNodes == {[len |-> NodeLen, val |-> v] : v \in 1..MaxLeafVal}

ShortNode == [len |-> NodeLen - 1, val |-> 0]

Nodes == ValidNodes \cup {ShortNode}

Init ==
    /\ leaves \in SeqsUpTo(Nodes, MaxLeaves)
    /\ tree = <<>>
    /\ indices = <<>>
    /\ proof = <<>>
    /\ multiproof = NoMultiProof
    /\ root = NilBytes
    /\ queues = NoQueues
    /\ node = 0
    /\ op = "init"
    /\ args = NoArgs
    /\ ret = NoRet

MakeMerkleTreeCall ==
    /\ op = "init"
    /\ LET r == MakeMerkleTree(leaves)
       IN  /\ tree' = r.tree
           /\ leaves' = r.leaves
           /\ ret' = [kind |-> r.kind, err |-> r.err]
    /\ args' = [NoArgs EXCEPT !.leaves = leaves]
    /\ op' = "MakeMerkleTree"
    /\ UNCHANGED <<indices, proof, multiproof, root, queues, node>>

Built == op = "MakeMerkleTree" /\ ret.kind = "return"

GetProofCall ==
    /\ Built
    /\ \E i \in -1..Len(tree) :
          LET r == GetProof(tree, i)
          IN  /\ proof' = r.proof
              /\ ret' = [kind |-> "return", err |-> r.err]
              /\ args' = [NoArgs EXCEPT !.index = i]
    /\ op' = "GetProof"
    /\ UNCHANGED <<leaves, tree, indices, multiproof, root, queues, node>>

ProcessProofCall ==
    /\ op = "GetProof" /\ ret.err = Nil
    /\ LET leaf == At(tree, args.index)
           r == ProcessProof(leaf, proof)
       IN  /\ root' = r.root
           /\ ret' = [kind |-> "return", err |-> r.err]
           /\ args' = [NoArgs EXCEPT !.leaf = leaf, !.proof = proof]
    /\ op' = "ProcessProof"
    /\ UNCHANGED <<leaves, tree, indices, proof, multiproof, queues, node>>

GetMultiProofCall ==
    /\ Built
    /\ \E idx \in SeqsUpTo(-1..Len(tree), MaxIndices) :
          LET r == GetMultiProof(tree, idx)
          IN  /\ multiproof' = r.multiproof
              /\ indices' = r.indices
              /\ queues' = r.queues
              /\ ret' = [kind |-> r.kind, err |-> r.err]
              /\ args' = [NoArgs EXCEPT !.indices = idx]
    /\ op' = "GetMultiProof"
    /\ UNCHANGED <<leaves, tree, proof, root, node>>

ProcessMultiProofCall ==
    /\ \/ op = "GetMultiProof" /\ ret.kind = "return"
       \/ op = "Received"
    /\ LET r == ProcessMultiProof(multiproof)
       IN  /\ root' = r.root
           /\ multiproof' = r.multiproof
           /\ queues' = r.queues
           /\ ret' = [kind |-> r.kind, err |-> r.err]
    /\ args' = [NoArgs EXCEPT !.multiproof = multiproof]
    /\ op' = "ProcessMultiProof"
    /\ UNCHANGED <<leaves, tree, indices, proof, node>>

Next ==
    \/ MakeMerkleTreeCall
    \/ GetProofCall
    \/ ProcessProofCall
    \/ GetMultiProofCall
    \/ ProcessMultiProofCall

Spec == Init /\ [][Next]_vars

\* A verifier that holds no tree: the multiproof arrived from outside.
InitVerify ==
    /\ leaves = <<>>
    /\ tree = <<>>
    /\ indices = <<>>
    /\ proof = <<>>
    /\ multiproof \in
          [Leaves : SeqsUpTo(Nodes, MaxParts),
           Proof : SeqsUpTo(Nodes, MaxParts),
           ProofFlags : SeqsUpTo(BOOLEAN, MaxFlags)]
    /\ root = NilBytes
    /\ queues = NoQueues
    /\ node = 0
    /\ op = "Received"
    /\ args = NoArgs
    /\ ret = NoRet

NextVerify == ProcessMultiProofCall

SpecVerify == InitVerify /\ [][NextVerify]_vars

\* The index functions on their own, applied to -1..MaxNode.
InitIndex ==
    /\ leaves = <<>>
    /\ tree = <<>>
    /\ indices = <<>>
    /\ proof = <<>>
    /\ multiproof = NoMultiProof
    /\ root = NilBytes
    /\ queues = NoQueues
    /\ node = 0
    /\ op = "Index"
    /\ args = NoArgs
    /\ ret = NoRet

ParentIndexCall ==
    /\ op = "Index"
    /\ \E i \in -1..MaxNode :
          /\ node' = parentIndex(i).val
          /\ ret' = [kind |-> "return", err |-> parentIndex(i).err]
          /\ args' = [NoArgs EXCEPT !.index = i]
    /\ op' = "parentIndex"
    /\ UNCHANGED <<leaves, tree, indices, proof, multiproof, root, queues>>

\* siblingIndex has an int as its only result: no error reaches the caller.
SiblingIndexCall ==
    /\ op = "Index"
    /\ \E i \in -1..MaxNode :
          /\ node' = siblingIndex(i)
          /\ ret' = [kind |-> "return", err |-> Nil]
          /\ args' = [NoArgs EXCEPT !.index = i]
    /\ op' = "siblingIndex"
    /\ UNCHANGED <<leaves, tree, indices, proof, multiproof, root, queues>>

NextIndex == ParentIndexCall \/ SiblingIndexCall

SpecIndex == InitIndex /\ [][NextIndex]_vars

\* ---- what the claims speak of

Range(s) == {s[k] : k \in 1..Len(s)}

DupFree(s) == \A i, j \in 1..Len(s) : i # j => s[i] # s[j]

AllThirtyTwo(s) == \A k \in 1..Len(s) : s[k].len = 32

\* The tree was built from N >= 1 leaves of 32 bytes.
ValidLeaves == Len(leaves) >= 1 /\ AllThirtyTwo(leaves)

\* i names a leaf of a tree of the given length: it is in range and has no
\* child in range.
LeafOf(len, i) == 0 <= i /\ i < len /\ 2 * i + 1 >= len

LeafRequest(s) == \A k \in 1..Len(s) : LeafOf(Len(tree), s[k])

\* The k-th largest element of a duplicate-free sequence.
KthLargest(s, k) ==
    CHOOSE x \in Range(s) : Cardinality({y \in Range(s) : y > x}) = k - 1

RECURSIVE Depth(_)
Depth(i) == IF i <= 0 THEN 0 ELSE 1 + Depth((i - 1) \div 2)

RECURSIVE Ancestor(_, _)
Ancestor(i, k) == IF k = 0 THEN i ELSE (Ancestor(i, k - 1) - 1) \div 2

SiblingOf(i) == IF i % 2 = 1 THEN i + 1 ELSE i - 1

CountIn(s, x) == Cardinality({k \in 1..Len(s) : s[k] = x})

Failed == ret.kind = "panic" \/ ret.err # Nil

\* C1: for a tree built from N >= 1 valid leaves and a non-empty,
\* duplicate-free request of leaf indices in any order, GetMultiProof
\* returns a multiproof and ProcessMultiProof of it returns tree[0].
C1_MultiProofRoot ==
    /\ (op = "GetMultiProof" /\ ValidLeaves /\ Len(args.indices) >= 1
            /\ DupFree(args.indices) /\ LeafRequest(args.indices))
        => ret.kind = "return"
    /\ (op = "ProcessMultiProof" /\ ValidLeaves /\ Len(indices) >= 1
            /\ DupFree(indices) /\ LeafRequest(indices))
        => (ret.kind = "return" /\ ret.err = Nil /\ root = At(tree, 0))

\* Two leaves at different depths of a three-leaf tree, asked for in
\* ascending order, verified to the root.
C1_Witness ==
    /\ op = "ProcessMultiProof"
    /\ ValidLeaves /\ Len(leaves) = 3 /\ leaves[1] # leaves[3]
    /\ indices = <<2, 4>>
    /\ ret.kind = "return" /\ root = At(tree, 0)

\* C2: for a tree built from N >= 1 valid leaves and a leaf index i,
\* GetProof returns without error the siblings met from the leaf to the
\* root, one per level (none when N = 1), and ProcessProof of tree[i] and
\* that proof returns tree[0] without error.
C2_ProofRoot ==
    /\ (op = "GetProof" /\ ValidLeaves /\ LeafOf(Len(tree), args.index))
        => /\ ret.err = Nil
           /\ Len(proof) = Depth(args.index)
           /\ \A k \in 1..Len(proof) :
                 proof[k] = At(tree, SiblingOf(Ancestor(args.index, k - 1)))
           /\ (Len(leaves) = 1 => proof = <<>>)
    /\ (op = "ProcessProof" /\ ValidLeaves)
        => (ret.err = Nil /\ root = At(tree, 0))

\* A leaf two levels below the root of a three-leaf tree of distinct
\* leaves, proved with two siblings.
C2_Witness ==
    /\ op = "ProcessProof"
    /\ ValidLeaves /\ Len(leaves) = 3 /\ leaves[1] # leaves[2]
    /\ Len(args.proof) = 2 /\ args.leaf = At(tree, 3)
    /\ ret.err = Nil /\ root = At(tree, 0)

\* C3: for a non-empty sequence of valid leaves MakeMerkleTree returns an
\* array of length 2N-1 whose last N slots hold the leaves, and which
\* isValidMerkleTree accepts: every node with children is hashPair of its
\* two children and no node has exactly one child in range.
C3_ValidTree ==
    (op = "MakeMerkleTree" /\ Len(args.leaves) >= 1 /\ AllThirtyTwo(args.leaves))
    => LET n == Len(args.leaves)
       IN  /\ ret.kind = "return"
           /\ Len(tree) = 2 * n - 1
           /\ \A x \in Range(args.leaves) :
                 CountIn(args.leaves, x) =
                     Cardinality({i \in (n - 1)..(2 * n - 2) : At(tree, i) = x})
           /\ isValidMerkleTree(tree)
           /\ \A i \in 0..(Len(tree) - 1) :
                 /\ At(tree, i).len = 32
                 /\ (2 * i + 1 < Len(tree)) = (2 * i + 2 < Len(tree))
                 /\ 2 * i + 2 < Len(tree) =>
                       At(tree, i) = hashPair(At(tree, 2 * i + 1), At(tree, 2 * i + 2))

\* A tree of five nodes built from three leaves given out of order.
C3_Witness ==
    /\ op = "MakeMerkleTree"
    /\ Len(args.leaves) = 3 /\ AllThirtyTwo(args.leaves)
    /\ args.leaves[1].val > args.leaves[2].val
    /\ Len(tree) = 5 /\ isValidMerkleTree(tree)

\* The two shape checks of ProcessMultiProof, on a multiproof m.
FalseFlags(m) == Cardinality({k \in 1..Len(m.ProofFlags) : m.ProofFlags[k] = FALSE})

CountsAgree(m) == Len(m.Leaves) + Len(m.Proof) = Len(m.ProofFlags) + 1

ShapeOk(m) == CountsAgree(m) /\ FalseFlags(m) <= Len(m.Proof)

\* The call ended by handing its caller an error value.
ErrorReturned == ret.kind = "return" /\ ret.err # Nil

\* C4: a multiproof whose counts violate len(leaves)+len(proof) ==
\* len(flags)+1, or with fewer proof nodes than false flags, makes
\* ProcessMultiProof hand its caller an error and never panic; so do a
\* duplicated index in GetMultiProof and an empty leaf sequence in
\* MakeMerkleTree.
C4_ErrorsAreReturned ==
    /\ (op = "ProcessMultiProof" /\ ~ShapeOk(args.multiproof)) => ErrorReturned
    /\ (op = "GetMultiProof" /\ ~DupFree(args.indices)) => ErrorReturned
    /\ (op = "MakeMerkleTree" /\ Len(args.leaves) = 0) => ErrorReturned

\* C5: a value that is not 32 bytes long is rejected before use:
\* MakeMerkleTree fails on such a leaf and builds no tree, ProcessProof and
\* ProcessMultiProof fail on such a leaf or proof element and return no root.
C5_ShortNodesRejected ==
    /\ (op = "MakeMerkleTree" /\ ~AllThirtyTwo(args.leaves))
        => (Failed /\ tree = <<>>)
    /\ (op = "ProcessProof" /\ ~(args.leaf.len = 32 /\ AllThirtyTwo(args.proof)))
        => (Failed /\ root = NilBytes)
    /\ (op = "ProcessMultiProof"
            /\ ~(AllThirtyTwo(args.multiproof.Leaves)
                 /\ AllThirtyTwo(args.multiproof.Proof)))
        => (Failed /\ root = NilBytes)

\* C6: GetMultiProof fails with a validation error and produces no
\* multiproof whenever a requested index does not name a leaf of the tree.
C6_NonLeafRejected ==
    (op = "GetMultiProof" /\ ~LeafRequest(args.indices))
    => (ret.err = "Index is not a leaf" /\ multiproof = NoMultiProof)

\* C7: for a duplicate-free request of leaf indices in any order
\* GetMultiProof returns one leaf per requested index, the k-th being the
\* tree value at the k-th largest requested index.
C7_LeavesDescending ==
    (op = "GetMultiProof" /\ DupFree(args.indices) /\ LeafRequest(args.indices))
    => /\ ret.kind = "return"
       /\ Len(multiproof.Leaves) = Len(args.indices)
       /\ \A k \in 1..Len(args.indices) :
             multiproof.Leaves[k] = At(tree, KthLargest(args.indices, k))
       /\ \A i \in 0..(Len(tree) - 1) :
             args.indices = <<i>> => multiproof.Leaves = <<At(tree, i)>>

\* Two leaves of distinct values asked for in ascending index order come
\* back in descending index order.
C7_Witness ==
    /\ op = "GetMultiProof" /\ ret.kind = "return"
    /\ Len(tree) = 5
    /\ args.indices = <<3, 4>>
    /\ At(tree, 3) # At(tree, 4)
    /\ multiproof.Leaves = <<At(tree, 4), At(tree, 3)>>

\* C8: the calls leave their arguments as they were: MakeMerkleTree the
\* caller's leaf sequence, GetProof and GetMultiProof the tree and the index
\* list, ProcessMultiProof the multiproof (stated for leaf sequences of
\* 32-byte values).
C8_ArgumentsUntouched ==
    [][/\ (op' = "MakeMerkleTree" /\ AllThirtyTwo(leaves)) => leaves' = leaves
       /\ op' \in {"GetProof", "GetMultiProof"} => tree' = tree
       /\ op' = "GetMultiProof" => indices' = args'.indices
       /\ op' = "ProcessMultiProof" => multiproof' = multiproof]_vars

\* C9: a multiproof of 32-byte values that passes both shape checks is
\* replayed to the end without reading an empty queue, and one value is
\* left: the only element of the leaf/result queue, or with no leaves the
\* only proof element; that value is what is returned.
C9_ReplayCompletes ==
    (op = "ProcessMultiProof"
        /\ AllThirtyTwo(args.multiproof.Leaves)
        /\ AllThirtyTwo(args.multiproof.Proof)
        /\ ShapeOk(args.multiproof))
    => /\ ret.kind = "return"
       /\ Len(queues.stack) + Len(queues.proof) = 1
       /\ Len(args.multiproof.Leaves) > 0 => queues.stack = <<root>>
       /\ Len(args.multiproof.Leaves) = 0 => queues.proof = <<root>>

\* C10, as claimed: every multiproof GetMultiProof returns for a
\* duplicate-free request of leaf indices, the empty one included, has
\* len(Leaves)+len(Proof) == len(ProofFlags)+1 and exactly as many false
\* flags as proof nodes (stated for the trees built from valid leaves).
C10_FalseFlagsEqualProof ==
    (op = "GetMultiProof" /\ ValidLeaves
        /\ DupFree(args.indices) /\ LeafRequest(args.indices))
    => /\ ret.kind = "return"
       /\ CountsAgree(multiproof)
       /\ FalseFlags(multiproof) = Len(multiproof.Proof)

\* C10, amended: the counts agree and the false flags do not outnumber the
\* proof nodes: they are as many for a non-empty request, while the empty
\* request gives no leaf, no flag and the root as the only proof node.  The
\* shape checks of ProcessMultiProof accept every such multiproof.
C10_ShapeAccepted ==
    /\ (op = "GetMultiProof" /\ DupFree(args.indices) /\ LeafRequest(args.indices))
        => /\ ret.kind = "return"
           /\ CountsAgree(multiproof)
           /\ FalseFlags(multiproof) <= Len(multiproof.Proof)
           /\ Len(args.indices) > 0 =>
                 FalseFlags(multiproof) = Len(multiproof.Proof)
           /\ Len(args.indices) = 0 =>
                 multiproof = [Leaves |-> <<>>, Proof |-> <<At(tree, 0)>>,
                               ProofFlags |-> <<>>]
    /\ (op = "ProcessMultiProof" /\ DupFree(indices) /\ LeafRequest(indices))
        => ret.err \notin {"Invalid multiproof format",
                           "Provided leaves and multiproof are not compatible"}

\* The multiproof of the empty request on a three-leaf tree, passed through
\* ProcessMultiProof.
C10_Witness ==
    /\ op = "ProcessMultiProof"
    /\ Len(tree) = 5 /\ indices = <<>>
    /\ args.multiproof.Proof = <<At(tree, 0)>>
    /\ args.multiproof.ProofFlags = <<>>
    /\ ret.kind = "return" /\ root = At(tree, 0)

\* The work queue at the start of every turn of the GetMultiProof loop:
\* every test of the loop condition but the last, which ends the loop.
Turns == {k \in 1..Len(queues.trace) : k < Len(queues.trace)}

\* C11: parentIndex(0) and siblingIndex(0) fail with an index error instead
\* of returning an index; for i > 0 parentIndex(i) is (i-1)/2 and
\* siblingIndex(i) is i+1 for an odd i and i-1 for an even one; and no walk
\* of GetProof or GetMultiProof asks for the parent or sibling of index 0.
C11_RootHasNoParentOrSibling ==
    /\ (op = "parentIndex" /\ args.index = 0)
        => ret.err = "Root has no parent"
    /\ (op = "siblingIndex" /\ args.index = 0)
        => ret.err = "Root has no siblings"
    /\ (op = "parentIndex" /\ args.index > 0)
        => (ret.err = Nil /\ node = (args.index - 1) \div 2)
    /\ (op = "siblingIndex" /\ args.index > 0)
        => (ret.err = Nil /\ node = SiblingOf(args.index))
    /\ (op = "GetProof" /\ ret.err = Nil)
        => Len(proof) <= Depth(args.index)
    /\ op = "GetMultiProof"
        => \A k \in Turns : queues.trace[k][1] > 0

\* The part of C11 that the index functions do meet: the values for i > 0,
\* the error of parentIndex(0), and the walks that stop at the root.
C11_HoldsButSiblingOfRoot ==
    /\ (op = "parentIndex" /\ args.index = 0)
        => ret.err = "Root has no parent"
    /\ (op = "parentIndex" /\ args.index > 0)
        => (ret.err = Nil /\ node = (args.index - 1) \div 2)
    /\ (op = "siblingIndex" /\ args.index > 0)
        => (ret.err = Nil /\ node = SiblingOf(args.index))
    /\ (op = "GetProof" /\ ret.err = Nil)
        => Len(proof) <= Depth(args.index)
    /\ op = "GetMultiProof"
        => \A k \in Turns : queues.trace[k][1] > 0

\* A work queue of a tree of the given length: tree indices in range, in
\* strictly descending order (so no two alike).
QueueInOrder(q, len) ==
    /\ \A i \in 1..Len(q) : 0 <= q[i] /\ q[i] < len
    /\ \A i, j \in 1..Len(q) : i < j => q[i] > q[j]

\* The sibling of the front of q is in the tree and, when it is in q at
\* all, it is the element after the front.
SiblingIsNext(q, len) ==
    (Len(q) > 0 /\ q[1] > 0)
    => /\ 0 <= SiblingOf(q[1]) /\ SiblingOf(q[1]) < len
       /\ SiblingOf(q[1]) \in Range(q) => (Len(q) >= 2 /\ q[2] = SiblingOf(q[1]))

\* C12, as claimed (stated for the trees built from valid leaves): in
\* GetMultiProof with a duplicate-free set of leaf indices the work queue is
\* in strictly descending order and in range at the start of every turn of
\* the loop, the sibling of its front is in range and is the next element
\* if it is in the queue, and the loop ends with the queue equal to [0].
C12_QueueEndsAtRoot ==
    (op = "GetMultiProof" /\ ValidLeaves
        /\ DupFree(args.indices) /\ LeafRequest(args.indices))
    => /\ ret.kind = "return"
       /\ \A k \in Turns :
             /\ QueueInOrder(queues.trace[k], Len(tree))
             /\ SiblingIsNext(queues.trace[k], Len(tree))
       /\ queues.stack = <<0>>

\* C12, amended: the same of the queue at every test of the loop condition,
\* and the loop ends with the queue equal to [0] for a non-empty set of leaf
\* indices; for the empty set the queue is empty and the loop takes no turn.
C12_QueueDescending ==
    (op = "GetMultiProof" /\ DupFree(args.indices) /\ LeafRequest(args.indices))
    => /\ ret.kind = "return"
       /\ Len(queues.trace) >= 1
       /\ queues.trace[Len(queues.trace)] = queues.stack
       /\ \A k \in 1..Len(queues.trace) :
             /\ QueueInOrder(queues.trace[k], Len(tree))
             /\ SiblingIsNext(queues.trace[k], Len(tree))
       /\ Len(args.indices) > 0 => queues.stack = <<0>>
       /\ Len(args.indices) = 0 => queues.trace = << <<>> >>

\* Two leaves of a three-leaf tree that are not siblings: the first turn
\* finds no sibling in the queue, the second finds it next, the loop ends
\* at the root.
C12_Witness ==
    /\ op = "GetMultiProof" /\ ret.kind = "return"
    /\ Len(tree) = 5
    /\ args.indices = <<2, 4>>
    /\ queues.trace = << <<4, 2>>, <<2, 1>>, <<0>> >>
    /\ multiproof.ProofFlags = <<FALSE, TRUE>>

====
